---- MODULE Spec2Model ----
(***************************************************************************)
(* fastcpy: slice_copy(src, dst) of src/src/lib.rs as a state machine.     *)
(*                                                                         *)
(* Memory is one flat byte array.  A call holds two slices (pointer and    *)
(* length) into it and moves through the program text one copy step at a   *)
(* time: the length check and dispatch of slice_copy, the single byte      *)
(* store of short_copy, the two window copies of double_copy_trick and     *)
(* the copy_nonoverlapping fallback.  Every copy step is logged with the   *)
(* addresses it reads and writes.                                          *)
(***************************************************************************)
EXTENDS Integers, Sequences, FiniteSets

\* ---------------------------------------------------------------- bounds

\* Longest slice of the model: one past the last dispatch boundary (64/65).
MaxLen == 66

\* Unallocated bytes kept between two slices.
Guard == 2

\* u8: a byte holds 0..255.
ByteMod == 256

\* First byte of a source pattern, and the byte a destination starts with.
Seeds == {0, 1}
Fills == {0, 170}

\* Lengths of the concurrent runs: both sides of every dispatch boundary.
ConcLens == {0, 1, 2, 3, 4, 7, 8, 16, 17, 32, 33, 64, MaxLen - 1}

\* The callers: thread 1, and thread 2 in the concurrent runs.
Threads == {1, 2}

\* ---------------------------------------------------------------- memory

Region == MaxLen + Guard
SrcBase(t) == 1 + Guard + (2 * (t - 1)) * Region
DstBase(t) == 1 + Guard + (2 * (t - 1) + 1) * Region
MemSize == Guard + 4 * Region
Addr == 1 .. MemSize

Range(p, n) == p .. (p + n - 1)

\* The test vectors: left = (0..len).map(|i| i as u8), right = vec![0u8; len].
\* Allocations alternate source, destination; byte i of a source is first + i.
InitialByte(a, first, fill) ==
    LET k == (a - 1 - Guard) \div Region
        i == (a - 1 - Guard) % Region
    IN  IF a > Guard /\ k % 2 = 0 /\ i < MaxLen
        THEN (first + i) % ByteMod
        ELSE fill

InitialMem(first, fill) == [a \in Addr |-> InitialByte(a, first, fill)]

VARIABLES
    mem,     \* the bytes of memory
    input,   \* the source pattern and destination fill the calls were made with
    avx,     \* cfg(target_feature = "avx"), fixed by the build
    call,    \* per thread: the two slices handed to slice_copy
    pc,      \* per thread: where the call is
    SIZE,    \* per thread: the const generic of the running double_copy_trick
    trace,   \* per thread: the functions entered, in order
    ops,     \* per thread: the copy steps performed, in order
    msg      \* per thread: the panic message's two numbers, or NoMsg

vars == <<mem, input, avx, call, pc, SIZE, trace, ops, msg>>

\* Memory as it was when the calls were made.
mem0(a) == InitialByte(a, input.seed, input.fill)

NoMsg == [source_slice_length |-> -1, destination_slice_length |-> -1]

NoCall == [srcPtr |-> 0, srcLen |-> 0, dstPtr |-> 0, dstLen |-> 0]

\* ------------------------------------------------------------ pure parts

\* slice_copy::len_mismatch_fail(dst_len, src_len): the panic message prints
\* src_len as the source slice length and dst_len as the destination's.
len_mismatch_fail(dst_len, src_len) ==
    [source_slice_length |-> src_len, destination_slice_length |-> dst_len]

\* A check that catches only a source longer than the destination.
len_mismatch_only_longer(src_len, dst_len) == src_len > dst_len

\* if src.len() != dst.len()
len_mismatch(src_len, dst_len) == src_len # dst_len

\* The cascade with the window 8 bracket ending one byte early (len < 16).
dispatch_16_excluded(len, wide) ==
    IF len = 0 THEN [fn |-> "return", W |-> 0]
    ELSE IF len < 8 THEN [fn |-> "short_copy", W |-> 0]
    ELSE IF len < 16 THEN [fn |-> "double_copy_trick", W |-> 8]
    ELSE IF len <= 32 THEN [fn |-> "double_copy_trick", W |-> 16]
    ELSE IF wide /\ len <= 64 THEN [fn |-> "double_copy_trick", W |-> 32]
    ELSE [fn |-> "copy_nonoverlapping", W |-> 0]

\* The cascade with the window 8 bracket ending one byte late (len <= 17).
dispatch_17_included(len, wide) ==
    IF len = 0 THEN [fn |-> "return", W |-> 0]
    ELSE IF len < 8 THEN [fn |-> "short_copy", W |-> 0]
    ELSE IF len <= 17 THEN [fn |-> "double_copy_trick", W |-> 8]
    ELSE IF len <= 32 THEN [fn |-> "double_copy_trick", W |-> 16]
    ELSE IF wide /\ len <= 64 THEN [fn |-> "double_copy_trick", W |-> 32]
    ELSE [fn |-> "copy_nonoverlapping", W |-> 0]

\* The cascade of slice_copy after the length check: the function entered
\* next and its window.
dispatch(len, wide) ==
    IF len = 0 THEN [fn |-> "return", W |-> 0]
    ELSE IF len < 8 THEN [fn |-> "short_copy", W |-> 0]
    ELSE IF len <= 16 THEN [fn |-> "double_copy_trick", W |-> 8]
    ELSE IF len <= 32 THEN [fn |-> "double_copy_trick", W |-> 16]
    ELSE IF wide /\ len <= 64 THEN [fn |-> "double_copy_trick", W |-> 32]
    ELSE [fn |-> "copy_nonoverlapping", W |-> 0]

\* short_copy splitting at 3 (window 4 on three bytes) and after 4.
short_is_wide_from_3(len) == len >= 3
short_is_wide_above_4(len) == len > 4

\* short_copy: if len >= 4
short_is_wide(len) == len >= 4

\* short_copy skipping the tail of a two byte slice.
short_has_tail_above_2(len) == len > 2

\* short_copy: if len >= 2, after the byte store
short_has_tail(len) == len >= 2

\* The second window one byte too far, and the first window taken again.
window_end_one_past(len, size) == len - size + 1
window_end_at_start(len, size) == 0

\* double_copy_trick: the offset of l_end and r_end.
window_end(len, size) == len - size

\* core::ptr::copy_nonoverlapping(s, d, n) on memory m.
copy_nonoverlapping(m, s, d, n) ==
    [a \in Addr |-> IF a \in Range(d, n) THEN m[s + (a - d)] ELSE m[a]]

InMem(p, n) == Range(p, n) \subseteq Addr

\* --------------------------------------------------------------- actions

\* One copy step of thread t: n bytes from s to d, then on to `next`.  The
\* step is logged whatever it touches; a step that leaves the modelled
\* memory is undefined behaviour and ends the call there.
CopyStep(t, kind, s, d, n, next) ==
    /\ ops' = [ops EXCEPT ![t] = Append(@, [kind |-> kind, src |-> s, dst |-> d, n |-> n])]
    /\ IF InMem(s, n) /\ InMem(d, n)
       THEN /\ mem' = copy_nonoverlapping(mem, s, d, n)
            /\ pc' = [pc EXCEPT ![t] = next]
       ELSE /\ mem' = mem
            /\ pc' = [pc EXCEPT ![t] = "ub"]

Enter(t, fn, w) ==
    /\ trace' = [trace EXCEPT ![t] = Append(@, <<fn, w>>)]
    /\ SIZE' = [SIZE EXCEPT ![t] = w]
    /\ pc' = [pc EXCEPT ![t] = fn]

\* slice_copy up to the call or return it dispatches to.
SliceCopy(t) ==
    /\ pc[t] = "call"
    /\ LET src_len == call[t].srcLen
           dst_len == call[t].dstLen
           d == dispatch(src_len, avx)
       IN  IF len_mismatch(src_len, dst_len)
           THEN /\ msg' = [msg EXCEPT ![t] = len_mismatch_fail(src_len, dst_len)]
                /\ pc' = [pc EXCEPT ![t] = "panicked"]
                /\ UNCHANGED <<SIZE, trace>>
           ELSE IF d.fn = "return"
           THEN /\ pc' = [pc EXCEPT ![t] = "returned"]
                /\ UNCHANGED <<SIZE, trace, msg>>
           ELSE /\ Enter(t, d.fn, d.W)
                /\ UNCHANGED msg
    /\ UNCHANGED <<mem, input, avx, call, ops>>

\* short_copy, len >= 4: straight into double_copy_trick::<4>.
ShortCopyWide(t) ==
    /\ pc[t] = "short_copy"
    /\ short_is_wide(call[t].srcLen)
    /\ Enter(t, "double_copy_trick", 4)
    /\ UNCHANGED <<mem, input, avx, call, ops, msg>>

\* short_copy, len 1-3: *r_begin = *l_begin, then double_copy_trick::<2>
\* if len >= 2.
ShortCopyByte(t) ==
    /\ pc[t] = "short_copy"
    /\ ~short_is_wide(call[t].srcLen)
    /\ LET tail == short_has_tail(call[t].srcLen)
       IN  /\ CopyStep(t, "byte", call[t].srcPtr, call[t].dstPtr, 1,
                       IF tail THEN "double_copy_trick" ELSE "returned")
           /\ SIZE' = [SIZE EXCEPT ![t] = IF tail THEN 2 ELSE @]
           /\ trace' = [trace EXCEPT ![t] =
                           IF tail THEN Append(@, <<"double_copy_trick", 2>>) ELSE @]
    /\ UNCHANGED <<input, avx, call, msg>>

\* double_copy_trick: l_end, r_end, then the copy of the first window.
\* len - SIZE below zero overflows: a panic where overflow is checked,
\* a wrapped offset and a wild pointer where it is not.
DctFirst(t) ==
    /\ pc[t] = "double_copy_trick"
    /\ IF window_end(call[t].srcLen, SIZE[t]) >= 0
       THEN CopyStep(t, "window", call[t].srcPtr, call[t].dstPtr, SIZE[t], "second_window")
       ELSE /\ \E outcome \in {"overflow_panic", "ub"} :
                    pc' = [pc EXCEPT ![t] = outcome]
            /\ UNCHANGED <<mem, ops>>
    /\ UNCHANGED <<input, avx, call, SIZE, trace, msg>>

\* double_copy_trick: the copy of the second window, and the return.
DctSecond(t) ==
    /\ pc[t] = "second_window"
    /\ LET off == window_end(call[t].srcLen, SIZE[t])
       IN  CopyStep(t, "window", call[t].srcPtr + off, call[t].dstPtr + off,
                    SIZE[t], "returned")
    /\ UNCHANGED <<input, avx, call, SIZE, trace, msg>>

\* The fallback: copy_nonoverlapping(src.as_ptr(), dst.as_mut_ptr(), src.len()).
BulkCopy(t) ==
    /\ pc[t] = "copy_nonoverlapping"
    /\ CopyStep(t, "bulk", call[t].srcPtr, call[t].dstPtr, call[t].srcLen, "returned")
    /\ UNCHANGED <<input, avx, call, SIZE, trace, msg>>

Next ==
    \E t \in Threads :
        \/ SliceCopy(t)
        \/ ShortCopyWide(t)
        \/ ShortCopyByte(t)
        \/ DctFirst(t)
        \/ DctSecond(t)
        \/ BulkCopy(t)

\* ----------------------------------------------------------- initial states

Slices(t, sp, sl, dl) ==
    [srcPtr |-> sp, srcLen |-> sl, dstPtr |-> DstBase(t), dstLen |-> dl]

InitCommon ==
    /\ input \in [seed : Seeds, fill : Fills]
    /\ mem = InitialMem(input.seed, input.fill)
    /\ avx \in BOOLEAN
    /\ SIZE = [t \in Threads |-> 0]
    /\ trace = [t \in Threads |-> <<>>]
    /\ ops = [t \in Threads |-> <<>>]
    /\ msg = [t \in Threads |-> NoMsg]

\* One call, of any two lengths.
Init ==
    /\ InitCommon
    /\ \E sl \in 0 .. MaxLen, dl \in 0 .. MaxLen :
          call = [t \in Threads |-> IF t = 1 THEN Slices(1, SrcBase(1), sl, dl) ELSE NoCall]
    /\ pc = [t \in Threads |-> IF t = 1 THEN "call" ELSE "idle"]

Spec == Init /\ [][Next]_vars

\* Two calls at once.  The destinations are apart from each other and from
\* the sources; the second call reads its own source or the first call's.
ConcPairs == {<<n, n>> : n \in ConcLens} \cup {<<5, 4>>, <<0, 1>>}

InitConc ==
    /\ InitCommon
    /\ \E p1 \in ConcPairs, p2 \in ConcPairs, sp2 \in {SrcBase(1), SrcBase(2)} :
          call = [t \in Threads |->
                     IF t = 1 THEN Slices(1, SrcBase(1), p1[1], p1[2])
                              ELSE Slices(2, sp2, p2[1], p2[2])]
    /\ pc = [t \in Threads |-> "call"]

SpecConc == InitConc /\ [][Next]_vars

\* ------------------------------------------------- what the claims speak of

Active == {t \in Threads : pc[t] # "idle"}
LenOf(t) == call[t].srcLen
SrcRange(t) == Range(call[t].srcPtr, call[t].srcLen)
DstRange(t) == Range(call[t].dstPtr, call[t].dstLen)
OpsOf(t) == {ops[t][k] : k \in DOMAIN ops[t]}
Reads(t) == UNION {Range(o.src, o.n) : o \in OpsOf(t)}
Writes(t) == UNION {Range(o.dst, o.n) : o \in OpsOf(t)}
TimesWritten(t, a) == Cardinality({k \in DOMAIN ops[t] : a \in Range(ops[t][k].dst, ops[t][k].n)})
TwiceWritten(t) == {a \in DstRange(t) : TimesWritten(t, a) = 2}
DstIsSrc(t) == \A i \in 0 .. (LenOf(t) - 1) : mem[call[t].dstPtr + i] = mem[call[t].srcPtr + i]
SrcIntact(t) == \A a \in SrcRange(t) : mem[a] = mem0(a)
Entered(t, fn, w) == \E k \in DOMAIN trace[t] : trace[t][k] = <<fn, w>>
Specialized(t) == LenOf(t) \in 1 .. 32 \/ (avx /\ LenOf(t) \in 1 .. 64)
Windows == {2, 4, 8, 16, 32}

\* The bracket table of the specification, as the functions entered.
Table(n, wide) ==
    IF n = 0 THEN <<>>
    ELSE IF n = 1 THEN << <<"short_copy", 0>> >>
    ELSE IF n \in 2 .. 3 THEN << <<"short_copy", 0>>, <<"double_copy_trick", 2>> >>
    ELSE IF n \in 4 .. 7 THEN << <<"short_copy", 0>>, <<"double_copy_trick", 4>> >>
    ELSE IF n \in 8 .. 16 THEN << <<"double_copy_trick", 8>> >>
    ELSE IF n \in 17 .. 32 THEN << <<"double_copy_trick", 16>> >>
    ELSE IF n \in 33 .. 64 /\ wide THEN << <<"double_copy_trick", 32>> >>
    ELSE << <<"copy_nonoverlapping", 0>> >>

\* The copy steps the table's strategy performs, by kind and size.
TableSteps(n, wide) ==
    IF n = 0 THEN <<>>
    ELSE IF n = 1 THEN << <<"byte", 1>> >>
    ELSE IF n \in 2 .. 3 THEN << <<"byte", 1>>, <<"window", 2>>, <<"window", 2>> >>
    ELSE IF n \in 4 .. 7 THEN << <<"window", 4>>, <<"window", 4>> >>
    ELSE IF n \in 8 .. 16 THEN << <<"window", 8>>, <<"window", 8>> >>
    ELSE IF n \in 17 .. 32 THEN << <<"window", 16>>, <<"window", 16>> >>
    ELSE IF n \in 33 .. 64 /\ wide THEN << <<"window", 32>>, <<"window", 32>> >>
    ELSE << <<"bulk", n>> >>

StepsDone(t) == [k \in DOMAIN ops[t] |-> <<ops[t][k].kind, ops[t][k].n>>]

\* ------------------------------------------------------------------ claims

\* C1: a call with equal lengths N, of any length and either build, ends by
\* returning (it neither panics nor runs into undefined behaviour), and when
\* it has returned dst[i] = src[i] for every i in [0, N) and src is as it was.
C1_CopyIsExact ==
    \A t \in Active :
        call[t].srcLen = call[t].dstLen =>
            /\ pc[t] \notin {"panicked", "overflow_panic", "ub"}
            /\ pc[t] = "returned" => DstIsSrc(t) /\ SrcIntact(t)

\* A returned copy across the 64/65 boundary and one in the wide bracket.
C1_Witness ==
    /\ pc[1] = "returned" /\ LenOf(1) = 33 /\ avx
    /\ Entered(1, "double_copy_trick", 32)
    /\ mem0(call[1].dstPtr + 32) # mem0(call[1].srcPtr + 32)
    /\ DstIsSrc(1)

\* C2: a call whose lengths differ is either not yet checked or has panicked;
\* it has entered no copy routine, performed no copy step, and every byte of
\* memory (dst and src included) is what it was before the call.
C2_MismatchTouchesNothing ==
    \A t \in Active :
        call[t].srcLen # call[t].dstLen =>
            /\ pc[t] \in {"call", "panicked"}
            /\ trace[t] = <<>>
            /\ ops[t] = <<>>
            /\ \A a \in Addr : mem[a] = mem0(a)

C2_Witness ==
    /\ pc[1] = "panicked" /\ call[1].srcLen = 5 /\ call[1].dstLen = 4
    /\ ops[1] = <<>> /\ \A a \in Addr : mem[a] = mem0(a)

\* C3: with equal lengths N every copy step reads source indexes in [0, N)
\* and writes destination indexes in [0, N) only; the window start never
\* underflows; nothing outside dst changes; N = 0 performs no step.
C3_AccessInBounds ==
    \A t \in Active :
        call[t].srcLen = call[t].dstLen =>
            /\ Reads(t) \subseteq SrcRange(t)
            /\ Writes(t) \subseteq DstRange(t)
            /\ pc[t] \notin {"overflow_panic", "ub"}
            /\ pc[t] \in {"double_copy_trick", "second_window"} =>
                   window_end(LenOf(t), SIZE[t]) >= 0
            /\ SrcIntact(t)
            /\ LenOf(t) = 0 => ops[t] = <<>>

\* A finished two-window copy whose second window ends at the last byte.
C3_Witness ==
    /\ pc[1] = "returned" /\ LenOf(1) = 17 /\ LenOf(1) = call[1].dstLen
    /\ Len(ops[1]) = 2
    /\ ops[1][2].dst = call[1].dstPtr + 1 /\ ops[1][2].n = 16
    /\ Writes(1) = DstRange(1)

\* C4: two calls running at once, step by step in any order, on destinations
\* apart from each other and from the sources (which they may share): each
\* call that returns has dst = src, and no call writes outside its own
\* destination, so never into the other call's source or destination.
C4_ConcurrentCallsIndependent ==
    \A t \in Active :
        call[t].srcLen = call[t].dstLen =>
            /\ pc[t] = "returned" => DstIsSrc(t)
            /\ pc[t] \notin {"overflow_panic", "ub"}
            /\ Writes(t) \subseteq DstRange(t)
            /\ \A u \in Active \ {t} :
                   Writes(t) \cap (SrcRange(u) \cup DstRange(u)) = {}

\* Both calls returned, reading the same source, after interleaved steps: the
\* second call is between its two windows when the first one has finished.
C4_Witness ==
    /\ pc[1] = "returned" /\ pc[2] = "second_window"
    /\ call[1].srcPtr = call[2].srcPtr
    /\ LenOf(1) = 33 /\ LenOf(2) = 7
    /\ Len(ops[1]) >= 1 /\ Len(ops[2]) = 1
    /\ DstIsSrc(1)

\* C5: a panicked call reports src.len() as the source slice length and
\* dst.len() as the destination slice length.
C5_MessageLabelsLengths ==
    \A t \in Active :
        pc[t] = "panicked" =>
            /\ msg[t].source_slice_length = call[t].srcLen
            /\ msg[t].destination_slice_length = call[t].dstLen

\* C6: with equal lengths N the functions entered and the copy steps made are
\* those of the bracket table for N and the build's wide-SIMD flag: always a
\* prefix of them, and all of them once the call has returned.
C6_StrategyFollowsTable ==
    \A t \in Active :
        call[t].srcLen = call[t].dstLen =>
            /\ Len(trace[t]) <= Len(Table(LenOf(t), avx))
            /\ trace[t] = SubSeq(Table(LenOf(t), avx), 1, Len(trace[t]))
            /\ Len(ops[t]) <= Len(TableSteps(LenOf(t), avx))
            /\ StepsDone(t) = SubSeq(TableSteps(LenOf(t), avx), 1, Len(ops[t]))
            /\ pc[t] = "returned" =>
                   /\ trace[t] = Table(LenOf(t), avx)
                   /\ StepsDone(t) = TableSteps(LenOf(t), avx)

\* The 33..64 bracket taken by the bulk fallback in a build without wide SIMD.
C6_Witness ==
    /\ pc[1] = "returned" /\ LenOf(1) = 64 /\ call[1].dstLen = 64 /\ ~avx
    /\ trace[1] = << <<"copy_nonoverlapping", 0>> >>
    /\ Len(ops[1]) = 1

\* C7: whenever double_copy_trick runs, its window W is one of 2, 4, 8, 16, 32
\* and W <= len <= 2*W, so len - W >= 0 and the windows [0, W) and
\* [len - W, len) together are exactly [0, len).
C7_WindowFitsLength ==
    \A t \in Active :
        pc[t] \in {"double_copy_trick", "second_window"} =>
            /\ SIZE[t] \in Windows
            /\ SIZE[t] <= LenOf(t)
            /\ LenOf(t) <= 2 * SIZE[t]
            /\ window_end(LenOf(t), SIZE[t]) >= 0
            /\ Range(0, SIZE[t]) \cup Range(window_end(LenOf(t), SIZE[t]), SIZE[t])
                   = Range(0, LenOf(t))

\* double_copy_trick::<16> at the top of its bracket: the windows just meet.
C7_Witness ==
    /\ pc[1] = "second_window" /\ SIZE[1] = 16 /\ LenOf(1) = 32
    /\ window_end(LenOf(1), SIZE[1]) = 16

\* C8: in a specialized bracket, after every copy step each destination byte
\* written so far holds the source byte of the same index, and once the call
\* has returned every index of [0, N) has been written at least once.
C8_WrittenBytesAreRight ==
    \A t \in Active :
        (call[t].srcLen = call[t].dstLen /\ Specialized(t)) =>
            /\ \A i \in 0 .. (LenOf(t) - 1) :
                   TimesWritten(t, call[t].dstPtr + i) >= 1 =>
                       mem[call[t].dstPtr + i] = mem0(call[t].srcPtr + i)
            /\ pc[t] = "returned" =>
                   \A i \in 0 .. (LenOf(t) - 1) : TimesWritten(t, call[t].dstPtr + i) >= 1

\* Between the two windows of a length 6 copy: bytes 0..3 are written and
\* right, bytes 4 and 5 still hold what dst started with.
C8_Witness ==
    /\ pc[1] = "second_window" /\ LenOf(1) = 6 /\ call[1].dstLen = 6
    /\ \A i \in 0 .. 3 : mem[call[1].dstPtr + i] = mem0(call[1].srcPtr + i)
    /\ \A i \in 4 .. 5 : /\ TimesWritten(1, call[1].dstPtr + i) = 0
                         /\ mem[call[1].dstPtr + i] # mem0(call[1].srcPtr + i)

\* C9 as stated: for N in 1..7 at most two copy operations are performed.
C9_AtMostTwoCopies ==
    \A t \in Active :
        (call[t].srcLen = call[t].dstLen /\ LenOf(t) \in 1 .. 7) => Len(ops[t]) <= 2

\* C9 amended: for N in 1..7 each copy operation has a fixed size of 1, 2 or 4
\* bytes and there is no loop: one operation for N = 1, two for N in 4..7,
\* and three (the byte store and the two 2-byte windows) for N in 2..3.
C9_AtMostThreeCopies ==
    \A t \in Active :
        (call[t].srcLen = call[t].dstLen /\ LenOf(t) \in 1 .. 7) =>
            /\ \A o \in OpsOf(t) : o.n \in {1, 2, 4}
            /\ Len(ops[t]) <= 3
            /\ LenOf(t) \in {1} \cup 4 .. 7 => Len(ops[t]) <= 2
            /\ pc[t] = "returned" =>
                   Len(ops[t]) = (IF LenOf(t) = 1 THEN 1 ELSE IF LenOf(t) <= 3 THEN 3 ELSE 2)

C9_Witness ==
    /\ pc[1] = "returned" /\ LenOf(1) = 3 /\ call[1].dstLen = 3
    /\ Len(ops[1]) = 3
    /\ DstIsSrc(1)

\* C10 as stated: in the brackets of windows 8, 16 and 32 the bytes written
\* twice, 2*W - N, are at most half of the N bytes of the range.
C10_OverlapAtMostHalfOfRange ==
    \A t \in Active :
        (pc[t] = "returned" /\ SIZE[t] \in {8, 16, 32}) =>
            2 * Cardinality(TwiceWritten(t)) <= LenOf(t)

\* C10 amended: in those brackets exactly 2*W - N destination bytes are
\* written twice, which is at most W: half of the 2*W bytes the two windows
\* move, and up to all N bytes of the range (N = W = 8).
C10_OverlapAtMostHalfOfMoved ==
    \A t \in Active :
        (pc[t] = "returned" /\ SIZE[t] \in {8, 16, 32}) =>
            /\ Cardinality(TwiceWritten(t)) = 2 * SIZE[t] - LenOf(t)
            /\ Cardinality(TwiceWritten(t)) <= SIZE[t]
            /\ Cardinality(TwiceWritten(t)) <= LenOf(t)

C10_Witness ==
    /\ pc[1] = "returned" /\ SIZE[1] = 8 /\ LenOf(1) = 8
    /\ Cardinality(TwiceWritten(1)) = 8

====
